---- MODULE Spec2Model ----
(***************************************************************************)
(* peak-vista terrain core: ElevationParser (parse_png, parse_txt) and     *)
(* MeshGenerator::generate, as a state machine whose actions are the       *)
(* exported calls.  Every call is a pure function of its arguments, so an  *)
(* action stores the arguments and the whole returned value.               *)
(*                                                                         *)
(* Numbers.  f32 values are modelled as integers:                          *)
(*   - elevations, tile sizes and vertex coordinates count hundredths of   *)
(*     a unit (the resolution of the PNG encoding, 0.01 m);                *)
(*   - components of normalised vectors count 1/Scale;                     *)
(*   - NaN is one extra value, produced only by normalising a vector of    *)
(*     length zero and absorbing under addition.                           *)
(* Tile sizes are drawn from multiples of 512, for which tile_size/256 and *)
(* tile_size/2 are exact, as they are in f32 (powers of two).              *)
(***************************************************************************)
EXTENDS Integers, Sequences, FiniteSets, TLC

(***************************************************************************)
(* Program constants.                                                      *)
(***************************************************************************)
HeightmapLen == 65536
HeightmapDim == 256
MaxSample == 255
NoData == 8388608
PngOffset == 1000000

(***************************************************************************)
(* Bounds of the model.                                                    *)
(***************************************************************************)
Scale == 1000
MaxElev == 100
NumFields == 3
MaxTileK == 1
NumPixelPatterns == 2
MaxLod == 3
MaxSmallRows == 2
MaxSmallCols == 2

(***************************************************************************)
(* Helpers.  Vec(f) is f as an evaluated sequence (a Rust Vec): the same   *)
(* value, with every element computed once.                                *)
(***************************************************************************)
Vec(f) == f \o <<>>
Min2(a, b) == IF a < b THEN a ELSE b
At(s, i) == s[i + 1]
Iota(n) == Vec([i \in 1..n |-> i])

RECURSIVE Flatten(_, _, _)
Flatten(ss, lo, hi) ==
  IF lo > hi THEN <<>>
  ELSE IF lo = hi THEN ss[lo]
  ELSE LET mid == (lo + hi) \div 2
       IN Flatten(ss, lo, mid) \o Flatten(ss, mid + 1, hi)

(***************************************************************************)
(* ElevationParser::parse_png.  The payload is what the image crate makes  *)
(* of the bytes: undecodable, or an RGB raster of width x height pixels in *)
(* row-major order.                                                        *)
(***************************************************************************)
Combined(pixel) == pixel[1] * 65536 + pixel[2] * 256 + pixel[3]

\* variant: the no-data code is decoded like any other
PixelElevationNoSentinel(pixel) == Combined(pixel) - PngOffset
PixelElevation(pixel) ==
  IF Combined(pixel) = NoData THEN 0 ELSE Combined(pixel) - PngOffset

\* line 36: the i-th pixel (from 0) in the order of rgb_image.pixels(), row by row
PixelOf(img, i) == img.rows[(i \div img.width) + 1][(i % img.width) + 1]

\* lines 25-31
WrongSize(width, height) == width # HeightmapDim \/ height # HeightmapDim

ParsePngResult(img) ==
  IF ~img.decodable
    THEN [status |-> "decode_error", err |-> <<>>, field |-> <<>>]
  ELSE IF WrongSize(img.width, img.height)
    THEN [status |-> "shape_error", err |-> <<img.width, img.height>>, field |-> <<>>]
  ELSE [status |-> "ok", err |-> <<>>,
        field |-> Vec([i \in 1..(img.width * img.height) |->
                         PixelElevation(PixelOf(img, i - 1))])]

(***************************************************************************)
(* ElevationParser::parse_txt.  The text is a sequence of characters.      *)
(***************************************************************************)
Whitespace == {" ", "\t"}

RECURSIVE SkipWsFwd(_, _)
SkipWsFwd(s, i) ==
  IF i > Len(s) \/ s[i] \notin Whitespace THEN i ELSE SkipWsFwd(s, i + 1)

RECURSIVE SkipWsBack(_, _, _)
SkipWsBack(s, lo, i) ==
  IF i < lo \/ s[i] \notin Whitespace THEN i ELSE SkipWsBack(s, lo, i - 1)

\* str::trim
TrimFrom(s, lo) == SubSeq(s, lo, SkipWsBack(s, lo, Len(s)))
Trim(s) == TrimFrom(s, SkipWsFwd(s, 1))

\* The pieces of s between the occurrences of sep; keepLast: whether a piece
\* after the last separator is produced when it is empty.
Cuts(s, sep) ==
  LET IsSep(i) == s[i] = sep
  IN SelectSeq(Iota(Len(s)), IsSep)
Pieces(s, cuts, count) ==
  Vec([k \in 1..count |->
        SubSeq(s, IF k = 1 THEN 1 ELSE cuts[k - 1] + 1,
                  IF k <= Len(cuts) THEN cuts[k] - 1 ELSE Len(s))])
PieceCount(s, cuts, keepLast) ==
  IF ~keepLast /\ (IF Len(cuts) = 0 THEN Len(s) = 0 ELSE cuts[Len(cuts)] = Len(s))
    THEN Len(cuts)
    ELSE Len(cuts) + 1
SplitCuts(s, cuts, keepLast) == Pieces(s, cuts, PieceCount(s, cuts, keepLast))
SplitAt(s, sep, keepLast) == SplitCuts(s, Cuts(s, sep), keepLast)

\* str::lines: split at line feeds, no empty piece after a final line feed
Lines(data) == SplitAt(data, "\n", FALSE)

\* str::split(',')
SplitComma(line) == SplitAt(line, ",", TRUE)

DigitChars == {"0", "1", "2", "3", "4", "5", "6", "7", "8", "9"}
IsDigit(c) == c \in DigitChars
DigitVal(c) ==
  CASE c = "0" -> 0 [] c = "1" -> 1 [] c = "2" -> 2 [] c = "3" -> 3 [] c = "4" -> 4
    [] c = "5" -> 5 [] c = "6" -> 6 [] c = "7" -> 7 [] c = "8" -> 8 [] OTHER -> 9

RECURSIVE DigitsEnd(_, _)
DigitsEnd(s, i) ==
  IF i > Len(s) \/ ~IsDigit(s[i]) THEN i ELSE DigitsEnd(s, i + 1)

RECURSIVE DigitsValue(_, _, _)
DigitsValue(s, lo, hi) ==
  IF lo > hi THEN 0 ELSE DigitsValue(s, lo, hi - 1) * 10 + DigitVal(s[hi])

RECURSIVE Pow10(_)
Pow10(n) == IF n <= 0 THEN 1 ELSE 10 * Pow10(n - 1)

\* <f32 as FromStr>::from_str on the characters of the model: sign, digits,
\* fraction, exponent.  The value counts hundredths, truncated.
\* [p0, p1): integer digits; [f0, f1): fraction digits; [e1, e2): exponent digits.
HasExponent(s, f1) == f1 <= Len(s) /\ s[f1] \in {"e", "E"}
ExponentOf(s, f1, e1, e2) ==
  IF HasExponent(s, f1)
    THEN (IF s[f1 + 1] = "-" THEN -1 ELSE 1) * DigitsValue(s, e1, e2 - 1)
    ELSE 0
Magnitude(mant, shift) ==
  IF shift >= 0 THEN mant * Pow10(shift) ELSE mant \div Pow10(-shift)
ParsedValue(s, p0, p1, f0, f1, e1, e2) ==
  (IF s[1] = "-" THEN -1 ELSE 1)
    * Magnitude(DigitsValue(s, p0, p1 - 1) * Pow10(f1 - f0) + DigitsValue(s, f0, f1 - 1),
                ExponentOf(s, f1, e1, e2) - (f1 - f0) + 2)
ScanEnd(s, p0, p1, f0, f1, e1, e2) ==
  IF (p1 > p0 \/ f1 > f0) /\ (~HasExponent(s, f1) \/ e2 > e1) /\ e2 = Len(s) + 1
    THEN [ok |-> TRUE, val |-> ParsedValue(s, p0, p1, f0, f1, e1, e2)]
    ELSE [ok |-> FALSE, val |-> 0]
ScanExponentDigits(s, p0, p1, f0, f1, e1) ==
  ScanEnd(s, p0, p1, f0, f1, e1, DigitsEnd(s, e1))
ScanExponent(s, p0, p1, f0, f1) ==
  ScanExponentDigits(s, p0, p1, f0, f1,
    IF ~HasExponent(s, f1) THEN f1
    ELSE IF f1 + 1 <= Len(s) /\ s[f1 + 1] \in {"-", "+"} THEN f1 + 2
    ELSE f1 + 1)
ScanFractionDigits(s, p0, p1, f0) == ScanExponent(s, p0, p1, f0, DigitsEnd(s, f0))
ScanFraction(s, p0, p1) ==
  ScanFractionDigits(s, p0, p1, IF p1 <= Len(s) /\ s[p1] = "." THEN p1 + 1 ELSE p1)
ScanInteger(s, p0) == ScanFraction(s, p0, DigitsEnd(s, p0))
ParseF32(s) ==
  ScanInteger(s, IF Len(s) >= 1 /\ s[1] \in {"-", "+"} THEN 2 ELSE 1)

\* variant: "e" is handed to the number parser like any other token
DecodeNoSentinel(value_str, parsed) ==
  [ok |-> parsed.ok, val |-> parsed.val, tok |-> value_str]

\* lines 69-84: one token
DecodeTrimmed(value_str, parsed) ==
  IF value_str = <<"e">> THEN [ok |-> TRUE, val |-> 0, tok |-> value_str]
  ELSE [ok |-> parsed.ok, val |-> parsed.val, tok |-> value_str]
DecodeValueStr(value_str) == DecodeTrimmed(value_str, ParseF32(value_str))
DecodeToken(raw) == DecodeValueStr(Trim(raw))

\* lines 62-68: the tokens of the non-blank lines, in reading order
TrimAll(ls) == Vec([k \in 1..Len(ls) |-> Trim(ls[k])])
NonBlankLines(data) ==
  LET NonBlank(l) == l # <<>>
  IN SelectSeq(TrimAll(Lines(data)), NonBlank)
SplitAll(ls) == Vec([k \in 1..Len(ls) |-> SplitComma(ls[k])])
Concat(ss) == Flatten(ss, 1, Len(ss))
TokensOf(data) == Concat(SplitAll(NonBlankLines(data)))

\* lines 68-85 over all tokens
DecodeAll(toks) == Vec([k \in 1..Len(toks) |-> DecodeToken(toks[k])])
BadPositions(dec) ==
  LET IsBad(k) == ~dec[k].ok
  IN SelectSeq(Iota(Len(dec)), IsBad)

\* variant: only a surplus of values is refused
TxtResultAtMost(dec, bad) ==
  IF bad # <<>>
    THEN [status |-> "parse_error", err |-> dec[bad[1]].tok, field |-> <<>>]
  ELSE IF Len(dec) > HeightmapLen
    THEN [status |-> "shape_error", err |-> <<Len(dec)>>, field |-> <<>>]
  ELSE [status |-> "ok", err |-> <<>>,
        field |-> Vec([k \in 1..Len(dec) |-> dec[k].val])]

\* lines 75-95: the first token that fails to parse ends the call; otherwise
\* the number of values decides
TxtResult(dec, bad) ==
  IF bad # <<>>
    THEN [status |-> "parse_error", err |-> dec[bad[1]].tok, field |-> <<>>]
  ELSE IF Len(dec) # HeightmapLen
    THEN [status |-> "shape_error", err |-> <<Len(dec)>>, field |-> <<>>]
  ELSE [status |-> "ok", err |-> <<>>,
        field |-> Vec([k \in 1..Len(dec) |-> dec[k].val])]
TxtResultOf(dec) == TxtResult(dec, BadPositions(dec))
ParseTxtResult(data) == TxtResultOf(DecodeAll(TokensOf(data)))

(***************************************************************************)
(* MeshGenerator::generate.                                                *)
(***************************************************************************)
NaN == -(2^30)

\* lines 99-104
ValidLod(lod_level) == lod_level \in {0, 1, 2}
StepOf(lod_level) ==
  CASE lod_level = 0 -> 8
    [] lod_level = 1 -> 4
    [] OTHER -> 2

\* variant: no edge vertices
GridSizeNoEdge(step) == HeightmapDim \div step

\* line 113
GridSize(step) == (HeightmapDim \div step) + 1

\* variant: the sample coordinate is not clamped
SampleUnclamped(coord, step) == coord * step

\* lines 120-121
Sample(coord, step) == Min2(coord * step, MaxSample)

\* variant: column-major lookup
ElevationIdxTransposed(sample_y, sample_x) == sample_x * HeightmapDim + sample_y

\* line 129
ElevationIdx(sample_y, sample_x) == sample_y * HeightmapDim + sample_x

\* lines 126-127
World(sample, tile_size) == sample * (tile_size \div HeightmapDim) - tile_size \div 2

\* lines 117-136: the vertex buffer, three values per vertex, rows of y then x
Vertices(elevations, tile_size, step) ==
  LET grid_size == GridSize(step)
  IN Vec([j \in 1..(3 * grid_size * grid_size) |->
        LET v == (j - 1) \div 3
            c == (j - 1) % 3
            sample_x == Sample(v % grid_size, step)
            sample_y == Sample(v \div grid_size, step)
        IN CASE c = 0 -> World(sample_x, tile_size)
             [] c = 1 -> At(elevations, ElevationIdx(sample_y, sample_x))
             [] OTHER -> World(sample_y, tile_size)])

\* lines 117-130: the reads of the elevation slice that fall outside it
FieldReadsOutOfBounds(elevations, step) ==
  \E y \in 0..(GridSize(step) - 1), x \in 0..(GridSize(step) - 1) :
     ElevationIdx(Sample(y, step), Sample(x, step)) >= Len(elevations)

\* lines 141-142: the cells of the index loop, per axis
CellsPerAxis(grid_size) == grid_size - 1

\* variant: both triangles of a cell wound the other way
CellIndicesClockwise(y, x, grid_size) ==
  LET idx0 == y * grid_size + x
      idx1 == y * grid_size + (x + 1)
      idx2 == (y + 1) * grid_size + x
      idx3 == (y + 1) * grid_size + (x + 1)
  IN <<idx0, idx1, idx2, idx1, idx3, idx2>>

\* lines 143-156: the six indices of cell (y, x)
CellIndices(y, x, grid_size) ==
  LET idx0 == y * grid_size + x
      idx1 == y * grid_size + (x + 1)
      idx2 == (y + 1) * grid_size + x
      idx3 == (y + 1) * grid_size + (x + 1)
  IN <<idx0, idx2, idx1, idx1, idx2, idx3>>

\* lines 141-158
Indices(grid_size) ==
  LET cells == CellsPerAxis(grid_size)
  IN Vec([j \in 1..(6 * cells * cells) |->
        LET cell == (j - 1) \div 6
        IN CellIndices(cell \div cells, cell % cells, grid_size)[((j - 1) % 6) + 1]])

\* glam Vec3 on the integer model
Sub(a, b) == <<a[1] - b[1], a[2] - b[2], a[3] - b[3]>>
Cross(a, b) ==
  <<a[2] * b[3] - a[3] * b[2], a[3] * b[1] - a[1] * b[3], a[1] * b[2] - a[2] * b[1]>>
FAdd(a, b) == IF a = NaN \/ b = NaN THEN NaN ELSE a + b
VAdd(a, b) == <<FAdd(a[1], b[1]), FAdd(a[2], b[2]), FAdd(a[3], b[3])>>
IsNaNVec(v) == v[1] = NaN \/ v[2] = NaN \/ v[3] = NaN

RECURSIVE Newton(_, _)
Newton(n, x) ==
  LET y == (x + n \div x) \div 2 IN IF y >= x THEN x ELSE Newton(n, y)

\* the integer square root
ISqrt(n) == IF n <= 0 THEN 0 ELSE Newton(n, 46341)

\* the k with 2^28 <= n * 4^k, which keeps 14 bits of the root
RECURSIVE ShiftOf(_, _)
ShiftOf(n, k) == IF n <= 0 \/ n >= 2^28 THEN k ELSE ShiftOf(n * 4, k + 1)

\* What normalising a vector of length zero yields: 0 * (1 / 0) per component.
ZeroLengthNormal == <<NaN, NaN, NaN>>

\* a * p / len in units of 1/Scale, rounded to nearest
Quotient(a, p, len) ==
  IF a < 0 THEN -(((-a) * p * Scale + len \div 2) \div len)
  ELSE (a * p * Scale + len \div 2) \div len
ScaleBy(v, p, len) == <<Quotient(v[1], p, len), Quotient(v[2], p, len), Quotient(v[3], p, len)>>
NormalizeShifted(v, n, p) == ScaleBy(v, p, ISqrt(n * p * p))
NormalizeDot(v, n) ==
  IF n = 0 THEN ZeroLengthNormal ELSE NormalizeShifted(v, n, 2^ShiftOf(n, 0))

\* Vec3::normalize: self * (1 / length), components rounded to 1/Scale
Normalize(v) ==
  IF IsNaNVec(v) THEN <<NaN, NaN, NaN>>
  ELSE NormalizeDot(v, v[1] * v[1] + v[2] * v[2] + v[3] * v[3])

Vertex(vertices, idx) ==
  <<At(vertices, idx * 3), At(vertices, idx * 3 + 1), At(vertices, idx * 3 + 2)>>

\* lines 164-186: the face normal of triangle t (t = i / 3)
TriangleNormal(v0, v1, v2) == Normalize(Cross(Sub(v1, v0), Sub(v2, v0)))
FaceNormal(vertices, indices, t) ==
  TriangleNormal(Vertex(vertices, At(indices, 3 * t)),
                 Vertex(vertices, At(indices, 3 * t + 1)),
                 Vertex(vertices, At(indices, 3 * t + 2)))

\* lines 164-182: the reads of the vertex buffer that fall outside it
MeshReadsOutOfBounds(vertices, indices) ==
  \E j \in 1..Len(indices) : indices[j] * 3 + 2 >= Len(vertices)

RECURSIVE SumOver(_, _)
SumFrom(face, S, e) == VAdd(At(face, e[1]), SumOver(face, S \ {e}))
SumOver(face, S) ==
  IF S = {} THEN <<0, 0, 0>> ELSE SumFrom(face, S, CHOOSE e \in S : TRUE)

\* The triangles of the (up to four) cells around vertex v: lines 141-158 put
\* a vertex in no other triangle, so the scan of line 163 is narrowed to them.
CellsAround(y, x, grid_size, triangles) ==
  {t \in {2 * (cy * (grid_size - 1) + cx) + h :
            cy \in {y - 1, y}, cx \in {x - 1, x}, h \in {0, 1}} :
     t >= 0 /\ t < triangles}
TrianglesAround(v, grid_size, triangles) ==
  CellsAround(v \div grid_size, v % grid_size, grid_size, triangles)

\* lines 161-203: accumulate each face normal into its three vertices, then
\* normalise every accumulated vector
FaceNormals(vertices, indices) ==
  Vec([t \in 1..(Len(indices) \div 3) |-> FaceNormal(vertices, indices, t - 1)])
\* the slots <<triangle, corner>> of the index buffer that name vertex v
Slots(indices, v, grid_size) ==
  {e \in TrianglesAround(v, grid_size, Len(indices) \div 3) \X {0, 1, 2} :
     At(indices, 3 * e[1] + e[2]) = v}
\* lines 189-193, per vertex
Accumulated(face, indices, vertex_count, grid_size) ==
  Vec([v \in 1..vertex_count |-> SumOver(face, Slots(indices, v - 1, grid_size))])
\* lines 197-203
NormalizeAll(acc) == Vec([v \in 1..Len(acc) |-> Normalize(acc[v])])
\* variant: one value per vertex instead of three
InterleaveShort(vecs) == Vec([j \in 1..Len(vecs) |-> vecs[j][2]])
Interleave(vecs) ==
  Vec([j \in 1..(3 * Len(vecs)) |-> vecs[(j - 1) \div 3 + 1][((j - 1) % 3) + 1]])
Normals(vertices, indices, grid_size) ==
  Interleave(NormalizeAll(
    Accumulated(FaceNormals(vertices, indices), indices, Len(vertices) \div 3, grid_size)))

NoMesh == [vertices |-> <<>>, indices |-> <<>>, normals |-> <<>>]

\* lines 161-209, on the buffers of lines 117-158
BuildMesh(vs, is, grid_size) ==
  IF MeshReadsOutOfBounds(vs, is)
    THEN [status |-> "panic", err |-> <<>>, mesh |-> NoMesh]
  ELSE [status |-> "ok", err |-> <<>>,
        mesh |-> [vertices |-> vs, indices |-> is, normals |-> Normals(vs, is, grid_size)]]

\* lines 85-210
GenerateResult(elevations, tile_size, lod_level) ==
  IF Len(elevations) # HeightmapLen
    THEN [status |-> "shape_error", err |-> <<Len(elevations)>>, mesh |-> NoMesh]
  ELSE IF ~ValidLod(lod_level)
    THEN [status |-> "param_error", err |-> <<>>, mesh |-> NoMesh]
  ELSE IF FieldReadsOutOfBounds(elevations, StepOf(lod_level))
    THEN [status |-> "panic", err |-> <<>>, mesh |-> NoMesh]
  ELSE BuildMesh(Vertices(elevations, tile_size, StepOf(lod_level)),
                 Indices(GridSize(StepOf(lod_level))),
                 GridSize(StepOf(lod_level)))

(***************************************************************************)
(* The arguments the host passes.                                          *)
(***************************************************************************)
\* elevation fields: flat for k = 0, sloped and wrapping otherwise
FieldValue(k, i) ==
  IF k = 0 THEN 0
  ELSE (((i % HeightmapDim) * k + (i \div HeightmapDim) * (2 * k + 1)) % (MaxElev + 1))
         - (IF k % 2 = 0 THEN MaxElev \div 2 ELSE 0)
Field(k, len) == Vec([i \in 1..len |-> FieldValue(k, i - 1)])
FieldLens == {0, HeightmapLen - 1, HeightmapLen}
TileSizes == {512 * k : k \in 0..MaxTileK}
LodLevels == 0..MaxLod

\* decoded images: pattern 0 alternates the no-data value with its successor
PixelAt(p, i) ==
  IF p = 0 THEN <<128, 0, i % 2>>
  ELSE <<(i * p) % 256, ((i \div HeightmapDim) * p) % 256, (i \div (p + 1)) % 256>>
Image(w, h, p) ==
  [decodable |-> TRUE, width |-> w, height |-> h,
   rows |-> Vec([y \in 1..h |-> Vec([x \in 1..w |-> PixelAt(p, (y - 1) * w + (x - 1))])])]
Undecodable == [decodable |-> FALSE, width |-> 0, height |-> 0, rows |-> <<>>]
ImageDims ==
  {<<HeightmapDim, HeightmapDim>>, <<HeightmapDim - 1, HeightmapDim>>,
   <<HeightmapDim, HeightmapDim + 1>>, <<HeightmapDim \div 2, HeightmapDim * 2>>,
   <<1, 1>>, <<0, 0>>}

\* texts: rows of comma-separated tokens, joined by line feeds
GoodTokens ==
  << <<"1">>, <<" ", "2">>, <<"e">>, <<"-", "1", " ">>, <<"1", "e", "1">>,
     <<"0", ".", "5">> >>
BadTokens ==
  << <<>>, <<"x">>, <<"e", "1">>, <<"1", "e">>, <<"-">>, <<" ">> >>
Join(pieces, sep) ==
  IF Len(pieces) = 0 THEN <<>>
  ELSE Concat(Vec([k \in 1..(2 * Len(pieces) - 1) |->
                     IF k % 2 = 1 THEN pieces[(k + 1) \div 2] ELSE <<sep>>]))
\* the first cells of the first rows take the tokens of GoodTokens in turn
TokenAt(r, c) ==
  IF (2 * r + c - 3) % 32 < Len(GoodTokens)
    THEN GoodTokens[((2 * r + c - 3) % 32) + 1]
    ELSE <<"7">>
RowLen(d, r) ==
  IF d.rows = 1 THEN d.cols
  ELSE IF r = 1 THEN d.cols - d.ragged
  ELSE IF r = d.rows THEN d.cols + d.ragged
  ELSE d.cols
RowText(d, r) ==
  Join(Vec([c \in 1..RowLen(d, r) |->
              IF d.bad > 0 /\ r = 1 /\ c = RowLen(d, 1) THEN BadTokens[d.bad]
              ELSE IF d.bad2 > 0 /\ r = d.rows /\ c = RowLen(d, r) THEN BadTokens[d.bad2]
              ELSE TokenAt(r, c)]), ",")
\* with blanks: an empty first line, a line of white space after the first
\* row, and a final line feed
WithBlanks(rows) ==
  <<"\n">>
    \o Join(IF rows = <<>> THEN rows ELSE <<rows[1], <<" ", "\t">>, <<>>>> \o Tail(rows), "\n")
    \o <<"\n">>
Text(d) ==
  IF d.blanks THEN WithBlanks(Vec([r \in 1..d.rows |-> RowText(d, r)]))
  ELSE Join(Vec([r \in 1..d.rows |-> RowText(d, r)]), "\n")
Desc(rows, cols, ragged, blanks, bad, bad2) ==
  [rows |-> rows, cols |-> cols, ragged |-> ragged, blanks |-> blanks,
   bad |-> bad, bad2 |-> bad2]
FullTexts ==
  { Desc(HeightmapDim, HeightmapDim, 0, FALSE, 0, 0),
    Desc(HeightmapDim, HeightmapDim, 0, TRUE, 0, 0),
    Desc(HeightmapDim, HeightmapDim, 1, FALSE, 0, 0),
    Desc(HeightmapDim \div 2, HeightmapDim * 2, 0, FALSE, 0, 0),
    Desc(HeightmapDim - 1, HeightmapDim, 0, FALSE, 0, 0),
    Desc(HeightmapDim, HeightmapDim + 1, 0, FALSE, 0, 0),
    Desc(HeightmapDim, HeightmapDim, 0, FALSE, 0, 1),
    Desc(HeightmapDim + 1, HeightmapDim, 0, FALSE, 2, 4) }
SmallTexts ==
  { Desc(rows, cols, 0, blanks, bad, bad2) :
      rows \in 0..MaxSmallRows, cols \in 1..MaxSmallCols, blanks \in BOOLEAN,
      bad \in 0..Len(BadTokens), bad2 \in {0, 2} }
TextDescs == FullTexts \cup SmallTexts

(***************************************************************************)
(* The state: the call in progress, its arguments and what it returned.    *)
(***************************************************************************)
VARIABLES pc, op, elevations, tile_size, lod_level, data, payload,
          status, err, vertices, indices, normals, field

args == <<elevations, tile_size, lod_level, data, payload>>
result == <<status, err, vertices, indices, normals, field>>
vars == <<pc, op, elevations, tile_size, lod_level, data, payload,
          status, err, vertices, indices, normals, field>>

NoArgs ==
  /\ elevations' = <<>>
  /\ tile_size' = 0
  /\ lod_level' = 0
  /\ data' = <<>>
  /\ payload' = Undecodable

Init ==
  /\ pc = "idle"
  /\ op = "none"
  /\ elevations = <<>>
  /\ tile_size = 0
  /\ lod_level = 0
  /\ data = <<>>
  /\ payload = Undecodable
  /\ status = "none"
  /\ err = <<>>
  /\ vertices = <<>>
  /\ indices = <<>>
  /\ normals = <<>>
  /\ field = <<>>

\* the host calls MeshGenerator::generate(elevations, tile_size, lod_level)
CallGenerate ==
  /\ pc = "idle"
  /\ \E len \in FieldLens, k \in 0..(NumFields - 1), ts \in TileSizes, lod \in LodLevels :
       /\ elevations' = Field(k, len)
       /\ tile_size' = ts
       /\ lod_level' = lod
  /\ pc' = "called"
  /\ op' = "generate"
  /\ UNCHANGED <<data, payload, result>>

\* the host calls ElevationParser::parse_txt(data)
CallParseTxt ==
  /\ pc = "idle"
  /\ \E d \in TextDescs : data' = Text(d)
  /\ pc' = "called"
  /\ op' = "parse_txt"
  /\ UNCHANGED <<elevations, tile_size, lod_level, payload, result>>

\* the host calls ElevationParser::parse_png(data)
CallParsePng ==
  /\ pc = "idle"
  /\ \/ payload' = Undecodable
     \/ \E wh \in ImageDims, p \in 0..(NumPixelPatterns - 1) :
          payload' = Image(wh[1], wh[2], p)
  /\ pc' = "called"
  /\ op' = "parse_png"
  /\ UNCHANGED <<elevations, tile_size, lod_level, data, result>>

\* mesh_generator.rs lines 85-210
Generate ==
  /\ pc = "called"
  /\ op = "generate"
  /\ \E r \in {GenerateResult(elevations, tile_size, lod_level)} :
        /\ status' = r.status
        /\ err' = r.err
        /\ vertices' = r.mesh.vertices
        /\ indices' = r.mesh.indices
        /\ normals' = r.mesh.normals
  /\ pc' = "returned"
  /\ UNCHANGED <<op, args, field>>

\* elevation_parser.rs lines 59-96
ParseTxt ==
  /\ pc = "called"
  /\ op = "parse_txt"
  /\ \E r \in {ParseTxtResult(data)} :
        /\ status' = r.status
        /\ err' = r.err
        /\ field' = r.field
  /\ pc' = "returned"
  /\ UNCHANGED <<op, args, vertices, indices, normals>>

\* elevation_parser.rs lines 12-54
ParsePng ==
  /\ pc = "called"
  /\ op = "parse_png"
  /\ \E r \in {ParsePngResult(payload)} :
        /\ status' = r.status
        /\ err' = r.err
        /\ field' = r.field
  /\ pc' = "returned"
  /\ UNCHANGED <<op, args, vertices, indices, normals>>

\* the host drops the arguments and the returned value
Release ==
  /\ pc = "returned"
  /\ pc' = "idle"
  /\ op' = "none"
  /\ NoArgs
  /\ status' = "none"
  /\ err' = <<>>
  /\ vertices' = <<>>
  /\ indices' = <<>>
  /\ normals' = <<>>
  /\ field' = <<>>

Next ==
  \/ CallGenerate
  \/ CallParseTxt
  \/ CallParsePng
  \/ Generate
  \/ ParseTxt
  \/ ParsePng
  \/ Release

Spec == Init /\ [][Next]_vars

(***************************************************************************)
(* Vocabulary of the properties.                                           *)
(***************************************************************************)
Returned(o) == pc = "returned" /\ op = o
MeshReturned == Returned("generate") /\ status = "ok"
VertexCount == Len(vertices) \div 3
TriangleCount == Len(indices) \div 3
ValidArgs == Len(elevations) = 65536 /\ lod_level \in {0, 1, 2}
Stride == CASE lod_level = 0 -> 8 [] lod_level = 1 -> 4 [] OTHER -> 2
Grid == 256 \div Stride + 1
Clamped(coord) == IF coord * Stride < 255 THEN coord * Stride ELSE 255
PositionOf(idx) == <<vertices[3 * idx + 1], vertices[3 * idx + 2], vertices[3 * idx + 3]>>
NormalOf(idx) == <<normals[3 * idx + 1], normals[3 * idx + 2], normals[3 * idx + 3]>>
\* (v1 - v0) x (v2 - v0) of triangle t, from the returned buffers
FaceCross(t) ==
  Cross(Sub(PositionOf(indices[3 * t + 2]), PositionOf(indices[3 * t + 1])),
        Sub(PositionOf(indices[3 * t + 3]), PositionOf(indices[3 * t + 1])))
FlatField == \A i \in 1..Len(elevations) : elevations[i] = 0
\* a trimmed token the text format accepts
IsValidToken(t) == t = <<"e">> \/ ParseF32(t).ok
TokenValue(t) == IF t = <<"e">> THEN 0 ELSE ParseF32(t).val
TrimmedTokens(text) == TrimAll(TokensOf(text))
AllValid(toks) == \A k \in 1..Len(toks) : IsValidToken(toks[k])
InvalidPositions(toks) ==
  LET Invalid(k) == ~IsValidToken(toks[k])
  IN SelectSeq(Iota(Len(toks)), Invalid)
RowsOf(text) == SplitAll(NonBlankLines(text))
Shape256(rows) == Len(rows) = 256 /\ \A r \in 1..Len(rows) : Len(rows[r]) = 256

(***************************************************************************)
(* C1.  Every mesh generate returns has a number of indices that is a      *)
(* multiple of 3, every index below the number of vertices, and as many    *)
(* normal values as vertex values.                                         *)
(***************************************************************************)
C1_MeshWellFormed ==
  MeshReturned =>
    /\ Len(indices) % 3 = 0
    /\ \A j \in 1..Len(indices) : indices[j] >= 0 /\ indices[j] < VertexCount
    /\ Len(vertices) % 3 = 0
    /\ Len(normals) = Len(vertices)

C1_Witness ==
  /\ MeshReturned
  /\ tile_size > 0
  /\ Len(indices) > 0
  /\ indices[Len(indices)] = VertexCount - 1
  /\ Len(normals) = 3 * VertexCount

(***************************************************************************)
(* C2.  Per LOD the stride is 8, 4, 2, the grid has 33, 65, 129 points per *)
(* axis, and the mesh has grid^2 vertices and 2 * (grid - 1)^2 triangles:  *)
(* 1089 vertices, 2048 triangles and 6144 indices for Far.                 *)
(***************************************************************************)
C2_Counts ==
  MeshReturned =>
    /\ Grid = (CASE lod_level = 0 -> 33 [] lod_level = 1 -> 65 [] OTHER -> 129)
    /\ Len(vertices) = 3 * Grid * Grid
    /\ Len(indices) = 6 * (Grid - 1) * (Grid - 1)
    /\ TriangleCount = 2 * (Grid - 1) * (Grid - 1)
    /\ lod_level = 0 => VertexCount = 1089 /\ TriangleCount = 2048 /\ Len(indices) = 6144

C2_Witness == MeshReturned /\ lod_level = 0 /\ VertexCount = 1089 /\ Len(indices) = 6144

(***************************************************************************)
(* C3.  generate fails exactly when the slice is not 65536 long (shape     *)
(* error) or, the length being right, lod_level is not 0, 1 or 2           *)
(* (parameter error); a failure returns no buffer, and every other call    *)
(* returns a mesh: no read outside the field or the buffers aborts it.     *)
(***************************************************************************)
C3_OnlyTwoFailures ==
  Returned("generate") =>
    /\ status \in {"ok", "shape_error", "param_error"}
    /\ status = "shape_error" <=> Len(elevations) # 65536
    /\ status = "param_error" <=> (Len(elevations) = 65536 /\ lod_level \notin {0, 1, 2})
    /\ status = "ok" <=> ValidArgs
    /\ status # "ok" => vertices = <<>> /\ indices = <<>> /\ normals = <<>>
    /\ status = "ok" => vertices # <<>> /\ indices # <<>> /\ normals # <<>>

C3_Witness ==
  /\ Returned("generate")
  /\ status = "shape_error"
  /\ lod_level \notin {0, 1, 2}
  /\ err = <<65535>>

(***************************************************************************)
(* C4.  The last grid column (row) of a tile lies at +tile_size/2 and the  *)
(* first at -tile_size/2, so that a tile and its neighbour placed          *)
(* tile_size further share their boundary vertices.                        *)
(***************************************************************************)
C4_SharedBoundary ==
  MeshReturned =>
    \A k \in 0..(Grid - 1) :
       /\ PositionOf(k * Grid + (Grid - 1))[1] = PositionOf(k * Grid)[1] + tile_size
       /\ PositionOf((Grid - 1) * Grid + k)[3] = PositionOf(k)[3] + tile_size
       /\ PositionOf(k * Grid)[1] = -(tile_size \div 2)
       /\ PositionOf(k * Grid + (Grid - 1))[1] = tile_size \div 2

(***************************************************************************)
(* C5, as claimed.  parse_txt returns a field only for a text of exactly   *)
(* 256 non-blank lines of exactly 256 tokens each; any other shape fails   *)
(* with the count-mismatch error.                                          *)
(***************************************************************************)
C5_OriginalOn(rows) ==
  /\ status = "ok" => Shape256(rows)
  /\ ~Shape256(rows) => status = "shape_error"
  /\ status = "ok" => Len(field) = 65536

C5_Original == Returned("parse_txt") => C5_OriginalOn(RowsOf(data))

(***************************************************************************)
(* C5, amended.  parse_txt returns a field exactly when every token of the *)
(* non-blank lines is "e" or a float and the tokens of all non-blank lines *)
(* together number 65536, however they are spread over the lines; with all *)
(* tokens valid and any other total it fails with the count-mismatch       *)
(* error; a returned field has 65536 values in line-then-token order.      *)
(***************************************************************************)
C5_AmendedOn(toks) ==
  /\ status = "ok" <=> (AllValid(toks) /\ Len(toks) = 65536)
  /\ (AllValid(toks) /\ Len(toks) # 65536) =>
        status = "shape_error" /\ err = <<Len(toks)>> /\ field = <<>>
  /\ status = "ok" =>
        /\ Len(field) = 65536
        /\ \A k \in 1..Len(field) : field[k] = TokenValue(toks[k])

C5_Amended == Returned("parse_txt") => C5_AmendedOn(TrimmedTokens(data))

C5_WitnessOn(rows) == ~Shape256(rows) /\ Len(rows) = 128
C5_Witness ==
  Returned("parse_txt") /\ status = "ok" /\ Len(field) = 65536 /\ C5_WitnessOn(RowsOf(data))

(***************************************************************************)
(* C6.  A trimmed token is "e" (decoded as 0.0) or must parse as a float;  *)
(* if any token of a non-blank line is neither, the call fails with a      *)
(* parse error naming the first such token in reading order, whatever the  *)
(* number of tokens, and returns no field.                                 *)
(***************************************************************************)
C6_On(toks, invalid) ==
  /\ invalid # <<>> =>
        status = "parse_error" /\ err = toks[invalid[1]] /\ field = <<>>
  /\ invalid = <<>> => status # "parse_error"
  /\ status = "ok" => \A k \in 1..Len(toks) : toks[k] = <<"e">> => field[k] = 0

C6_OnTokens(toks) == C6_On(toks, InvalidPositions(toks))

C6_FirstBadToken == Returned("parse_txt") => C6_OnTokens(TrimmedTokens(data))

C6_WitnessOn(toks, invalid) ==
  /\ Len(invalid) = 2
  /\ toks[invalid[1]] = <<"1", "e">>
  /\ toks[invalid[2]] = <<"x">>
  /\ invalid[1] > 1
C6_WitnessOnTokens(toks) == C6_WitnessOn(toks, InvalidPositions(toks))
C6_Witness ==
  /\ Returned("parse_txt")
  /\ status = "parse_error"
  /\ err = <<"1", "e">>
  /\ field = <<>>
  /\ C6_WitnessOnTokens(TrimmedTokens(data))

(***************************************************************************)
(* C7.  For a decodable image of 256 x 256 pixels parse_png returns 65536  *)
(* values in pixel order, 0.0 where (R<<16)|(G<<8)|B is 8388608 and        *)
(* combined * 0.01 - 10000.0 elsewhere (in hundredths: combined - 1000000);*)
(* any other width or height gives a size-mismatch error and no field.     *)
(***************************************************************************)
C7_Png ==
  (Returned("parse_png") /\ payload.decodable) =>
    IF payload.width = 256 /\ payload.height = 256
      THEN /\ status = "ok"
           /\ Len(field) = 65536
           /\ \A i \in 1..Len(field) :
                field[i] =
                  LET pixel == payload.rows[((i - 1) \div 256) + 1][((i - 1) % 256) + 1]
                  IN IF pixel = <<128, 0, 0>> THEN 0
                     ELSE pixel[1] * 65536 + pixel[2] * 256 + pixel[3] - 1000000
      ELSE /\ status = "shape_error"
           /\ err = <<payload.width, payload.height>>
           /\ field = <<>>

C7_Witness ==
  /\ Returned("parse_png")
  /\ status = "ok"
  /\ payload.rows[1][1] = <<128, 0, 0>>
  /\ field[1] = 0
  /\ field[2] = 7388609

(***************************************************************************)
(* C8.  With tile_size > 0 every triangle (idx0, idx2, idx1) and           *)
(* (idx1, idx2, idx3) has a face normal (v1 - v0) x (v2 - v0) with a       *)
(* strictly positive Y component, every vertex is in some triangle, and so *)
(* every vertex normal points upward; for the all-zero field every normal  *)
(* is (0, 1, 0).                                                           *)
(***************************************************************************)
C8_NormalsUp ==
  (MeshReturned /\ tile_size > 0) =>
    /\ \A t \in 0..(TriangleCount - 1) : FaceCross(t)[2] > 0
    /\ {indices[j] : j \in 1..Len(indices)} = 0..(VertexCount - 1)
    /\ \A v \in 0..(VertexCount - 1) : NormalOf(v)[2] # NaN /\ NormalOf(v)[2] > 0
    /\ FlatField => \A v \in 0..(VertexCount - 1) : NormalOf(v) = <<0, Scale, 0>>

C8_Witness ==
  /\ MeshReturned
  /\ tile_size > 0
  /\ ~FlatField
  /\ \E v \in 0..(VertexCount - 1) : NormalOf(v)[1] < 0 /\ NormalOf(v)[2] > 0

(***************************************************************************)
(* C9.  Every normal of a returned mesh is a defined unit vector: where a  *)
(* face normal or an accumulated normal has length zero, generate puts a   *)
(* fallback direction instead of the result of dividing by zero.           *)
(***************************************************************************)
UnitLength(n) ==
  /\ ~IsNaNVec(n)
  /\ 100 * (n[1] * n[1] + n[2] * n[2] + n[3] * n[3]) >= 99 * Scale * Scale
  /\ 100 * (n[1] * n[1] + n[2] * n[2] + n[3] * n[3]) <= 101 * Scale * Scale

C9_UnitNormals ==
  MeshReturned => \A v \in 0..(VertexCount - 1) : UnitLength(NormalOf(v))

(***************************************************************************)
(* C10.  The vertex at grid position (y, x) has the elevation              *)
(* field[sy * 256 + sx] and the planar coordinates                         *)
(* sx * (tile_size / 256) - tile_size / 2 and sy * (tile_size / 256) -     *)
(* tile_size / 2, with sx = min(x * stride, 255) and likewise sy; every    *)
(* index read is in 0..65535, and the clamp acts on the last row and       *)
(* column only, which read source row and column 255.                      *)
(***************************************************************************)
C10_VertexSampling ==
  MeshReturned =>
    /\ \A y \in 0..(Grid - 1), x \in 0..(Grid - 1) :
         /\ Clamped(y) * 256 + Clamped(x) \in 0..65535
         /\ PositionOf(y * Grid + x) =
              << Clamped(x) * (tile_size \div 256) - tile_size \div 2,
                 elevations[Clamped(y) * 256 + Clamped(x) + 1],
                 Clamped(y) * (tile_size \div 256) - tile_size \div 2 >>
    /\ \A c \in 0..(Grid - 1) :
         /\ c < Grid - 1 => Clamped(c) = c * Stride
         /\ c = Grid - 1 => (Clamped(c) = 255 /\ c * Stride = 256)

C10_Witness ==
  /\ MeshReturned
  /\ tile_size > 0
  /\ lod_level = 1
  /\ PositionOf(64 * Grid + 64) = <<254, elevations[65536], 254>>
  /\ elevations[65536] # elevations[1]

====
